---- MODULE Spec2Model ----
(***************************************************************************)
(* s3-migrate: the concurrent migration engine (lib.migrateObjects with    *)
(* its worker pool) and the S3 client operations it calls.                 *)
(*                                                                         *)
(* One run of migrateObjects is modelled: the main goroutine starts the    *)
(* workers, opens the cursor, feeds the channel, closes it, waits for the  *)
(* workers and builds the report.  Every worker goroutine is a process     *)
(* with its own program counter.  The Go statement  x++  on a shared int64 *)
(* is a load followed by a store; the two are separate steps here.         *)
(***************************************************************************)
EXTENDS Integers, Sequences, FiniteSets, TLC

\* ------------------------------------------------------------------ bounds
MaxConcurrency == 2     \* largest params.Concurrency explored
MaxDocs == 2            \* longest cursor explored

\* The storage keys of the run.  StorageID is the document's _id, so no two
\* documents of the collection share a key: a key is the number of its
\* document together with the way it lies in the two buckets when the run
\* starts.
KeysInOrder == <<"both", "dstOnly", "neither", "srcOnly">>
Workers == 1..(MaxConcurrency + 1)
Docs == 1..MaxDocs
Keys == {<<KeysInOrder[i], d>> : i \in 1..Len(KeysInOrder), d \in Docs}
SourceBucket == {k \in Keys : k[1] \in {"both", "srcOnly"}}
DestBucket == {k \in Keys : k[1] \in {"both", "dstOnly"}}

\* The cursors explored: MaxDocs documents, each with a key of any kind.
\* One cursor stands for each multiset of kinds, its documents listed in the
\* order of KeysInOrder.
Cursors ==
    LET Ranks == {g \in [Docs -> 1..Len(KeysInOrder)] :
                     \A i, j \in Docs : i < j => g[i] <= g[j]}
    IN {[d \in Docs |-> <<KeysInOrder[g[d]], d>>] : g \in Ranks}

\* Results of minio's StatObject as ObjectExist tells them apart.
StatOK == "ok"
StatNoKey == "The specified key does not exist"
StatOther == "other error"

\* The four statistics counters of migrateObjects.
Copied == "copiedCount"
Skipped == "skippedCount"
AlreadyExists == "alreadyExistsCount"
Errored == "errorCount"
Classes == {Copied, Skipped, AlreadyExists, Errored}
None == "none"

\* The S3 clients of a run, and the endpoint minio.New gets by default.
Clients == {"source", "dest"}
DefaultEndpoint == "s3.amazonaws.com"

VARIABLES
    Concurrency,    \* params.Concurrency
    DryRun,         \* params.DryRun
    RateLimit,      \* params.RateLimit (limiter # nil iff RateLimit > 0)
    cursor,         \* the documents the cursor yields: their StorageID
    srcStore,       \* keys present in the source bucket
    dstStore,       \* keys present in the destination bucket
    mpc,            \* position of the main goroutine in migrateObjects
    spawned,        \* loop variable i of the worker start loop
    pos,            \* number of documents the cursor has yielded
    objectChan,     \* buffered channel: indexes of the documents in it
    closed,         \* close(objectChan) has run
    mtmp,           \* errorCount as loaded by the feeder's errorCount++
    wpc,            \* position of each worker goroutine
    wdoc,           \* the document a worker is processing (0: none)
    wclass,         \* the counter a worker is about to increment
    wtmp,           \* the counter value loaded by a worker's ++
    count,          \* copiedCount, skippedCount, alreadyExistsCount, errorCount
    report,         \* the MigrationReport, <<>> until built
    returned,       \* what migrateObjects returned: "none", "nil", "err"
    cancelled,      \* ctx has been cancelled
    \* history of the run, read by the properties only
    dequeued,       \* number of receives from objectChan that yielded a document
    recvs,          \* per document, the number of receives that yielded it
    outcome,        \* per document, the classifications it was given, in order
    copyIssued,     \* documents for which the server-side copy was called
    incs,           \* per document, the counters whose ++ completed for it
    decodeErrs,     \* number of documents whose Decode failed
    finalized,      \* per counter, number of completed ++ statements
    published,      \* documents sent on objectChan
    faults,         \* documents for which a limiter or store call failed
    late,           \* documents for which a call was made on the cancelled ctx
    \* MigrateStorage before the run, and the S3 clients
    config,         \* the values viper gives MigrateStorage, <<>> when not modelled
    endpoint,       \* the package variable endpoint of s3.go
    clientEndpoint, \* per S3 client, the endpoint minio.New was given for it
                    \* (<<>> when the construction is not modelled)
    \* the rate limiter and the clock
    now,            \* the time, in ticks
    limLast,        \* the limiter's last: when its tokens were last updated
    limTokens,      \* the limiter's tokens, in ticks of refill (may be negative)
    wake,           \* per worker, the time its limiter.Wait may return
    grants,         \* per tick, the number of Waits the limiter let pass then
    stats,          \* per tick, the number of source checks initiated then
    \* the sequential migrateObjects of lib/migrate.go
    objects,        \* the documents of the collection: StorageID and ID of each
    Limit,          \* params.Limit, the page size
    page,           \* loop variable page
    storeCalls,     \* the calls made to the object stores: document, call, key
    queries,        \* the Skip of every Find made, in order
    \* one use of the S3 client for one key: ObjectExist, then CopyObject
    co              \* the call's variables and its progress bar, <<>> when
                    \* not modelled

vars == <<Concurrency, DryRun, RateLimit, cursor, srcStore, dstStore, mpc,
          spawned, pos, objectChan, closed, mtmp, wpc, wdoc, wclass, wtmp,
          count, report, returned, dequeued, recvs, outcome, copyIssued, incs,
          decodeErrs, finalized, published, faults, cancelled, late,
          config, endpoint, clientEndpoint, now, limLast, limTokens, wake,
          grants, stats, objects, Limit, page, storeCalls, queries, co>>

params == <<Concurrency, DryRun, RateLimit, cursor, srcStore>>
mainVars == <<mpc, spawned, pos, closed, mtmp, report, returned>>
workerVars == <<wpc, wdoc, wclass, wtmp>>
feedHist == <<decodeErrs, published>>
workHist == <<dequeued, recvs, outcome, copyIssued, incs, faults, late>>
setupVars == <<config, endpoint, clientEndpoint>>
rateVars == <<now, limLast, limTokens, wake, grants, stats>>
seqVars == <<objects, Limit, page, storeCalls, queries>>
subVars == <<setupVars, rateVars, seqVars, co>>

\* ------------------------------------------------------- pure definitions

\* for i := int64(0); i < params.Concurrency; i++
SpawnCondOffByOne(i, n) == i <= n
SpawnCond(i, n) == i < n

\* make(chan Object, params.Concurrency)
ChanCapPlusOne(n) == n + 1
ChanCap(n) == n

\* doc := <-objectChan (one iteration of  for doc := range objectChan)
ChanRecvKeepsHead(q) == [doc |-> Head(q), rest |-> q]
ChanRecv(q) == [doc |-> Head(q), rest |-> Tail(q)]

\* limiter != nil
HasLimiterAtZero(ratelimit) == ratelimit >= 0
HasLimiter(ratelimit) == ratelimit > 0

\* wg.Wait() returns: every worker started has called wg.Done().
WaitGroupNoWait(pcs) == TRUE
WaitGroupDone(pcs) == \A w \in DOMAIN pcs : pcs[w] \in {"unstarted", "exited"}

\* What StatObject can answer for a key, given whether the bucket holds it
\* and whether ctx is cancelled (the request then fails).
StatResults(present, cancel) ==
    IF cancel THEN {StatOther}
    ELSE IF present THEN {StatOK, StatOther}
    ELSE {StatNoKey, StatOther}

\* What cursor.Next(ctx) can answer: false when no document is left, true
\* otherwise; on a cancelled ctx it also answers false when the next
\* document is not in the batch already fetched.
NextResults(left, cancel) ==
    IF ~left THEN {FALSE} ELSE IF cancel THEN {TRUE, FALSE} ELSE {TRUE}

\* Whether a call that takes ctx (limiter.Wait, Collection.Find, the
\* server-side copy) can fail: it may always, and must on a cancelled ctx.
CallErrs(cancel) == IF cancel THEN {TRUE} ELSE BOOLEAN

\* S3Client.ObjectExist: the (exist, err) pair for a StatObject result.
ObjectExistAbsentOnError(stat) ==
    [exist |-> stat = StatOK, err |-> FALSE]
ObjectExist(stat) ==
    IF stat = StatNoKey THEN [exist |-> FALSE, err |-> FALSE]
    ELSE IF stat # StatOK THEN [exist |-> FALSE, err |-> TRUE]
    ELSE [exist |-> TRUE, err |-> FALSE]

\* The worker's branches.  Each gives the classification made (None when the
\* worker goes on with the same document) and the worker's next position.
Classify(c) == [class |-> c, next |-> "load"]
Goto(p) == [class |-> None, next |-> p]

\* if err := limiter.Wait(ctx); err != nil { errorCount++; continue }
AfterWaitReturns(err) ==
    IF err THEN [class |-> Errored, next |-> "exited"] ELSE Goto("src")
AfterWait(err) == IF err THEN Classify(Errored) ELSE Goto("src")

\* exists, err := sourceClient.ObjectExist(...) and its two branches
AfterSourceIgnoresExists(r) ==
    IF r.err THEN Classify(Errored) ELSE Goto("dst")
AfterSourceNoContinue(r) ==
    IF r.err THEN [class |-> Errored, next |-> "dst"]
    ELSE IF ~r.exist THEN Classify(Skipped)
    ELSE Goto("dst")
AfterSource(r) ==
    IF r.err THEN Classify(Errored)
    ELSE IF ~r.exist THEN Classify(Skipped)
    ELSE Goto("dst")

\* destExists, err := destClient.ObjectExist(...), then  if params.DryRun
AfterDestIgnoresExists(r, dry) ==
    IF r.err THEN Classify(Errored)
    ELSE IF dry THEN Classify(Copied)
    ELSE Goto("copy")
AfterDest(r, dry) ==
    IF r.err THEN Classify(Errored)
    ELSE IF r.exist THEN Classify(AlreadyExists)
    ELSE IF dry THEN Classify(Copied)
    ELSE Goto("copy")

\* if err := destClient.CopyObject(...); err != nil { errorCount++; continue }
AfterCopyReturns(err) ==
    IF err THEN [class |-> Errored, next |-> "exited"] ELSE Classify(Copied)
AfterCopy(err) == IF err THEN Classify(Errored) ELSE Classify(Copied)

\* report := MigrationReport{...}
BuildReport(c) ==
    [Copied |-> c[Copied], Skipped |-> c[Skipped],
     AlreadyInDestination |-> c[AlreadyExists], Errors |-> c[Errored]]

\* ticks of the clock in the time one token takes to come back: a second
\* is  ratelimit * TicksPerToken  ticks
TicksPerToken == 2
MaxTime == 4            \* last tick explored
MaxRate == 2            \* largest --ratelimit explored with the clock
Ticks == 0..MaxTime

\* rate.NewLimiter(rate.Limit(ratelimit), 1): the burst
Burst == 1

\* The limiter as NewLimiter leaves it (its bucket full), no Wait called.
RateAtStart ==
    /\ now = 0
    /\ limLast = 0
    /\ limTokens = Burst * TicksPerToken
    /\ wake = [w \in Workers |-> 0]
    /\ grants = [t \in Ticks |-> 0]
    /\ stats = [t \in Ticks |-> 0]

\* The limiter and the clock left out: the runs in which only the order of
\* the steps matters, and limiter.Wait just returns or fails.
RateUnused ==
    /\ now = 0
    /\ limLast = 0
    /\ limTokens = 0
    /\ wake = <<>>
    /\ grants = <<>>
    /\ stats = <<>>

\* The sequential migrateObjects not running.
SeqAtStart ==
    /\ objects = <<>>
    /\ Limit = 1
    /\ page = 0
    /\ storeCalls = {}
    /\ queries = <<>>
    /\ co = <<>>

\* ------------------------------------------------------------------- Init
Init ==
    /\ Concurrency \in 1..MaxConcurrency
    /\ DryRun \in BOOLEAN
    /\ RateLimit \in {0, 1}
    /\ cursor \in Cursors
    /\ srcStore = SourceBucket
    /\ dstStore = DestBucket
    /\ mpc = "spawn"
    /\ spawned = 0
    /\ pos = 0
    /\ objectChan = <<>>
    /\ closed = FALSE
    /\ mtmp = 0
    /\ wpc = [w \in Workers |-> "unstarted"]
    /\ wdoc = [w \in Workers |-> 0]
    /\ wclass = [w \in Workers |-> None]
    /\ wtmp = [w \in Workers |-> 0]
    /\ count = [c \in Classes |-> 0]
    /\ report = <<>>
    /\ returned = "none"
    /\ dequeued = 0
    /\ recvs = [d \in Docs |-> 0]
    /\ outcome = [d \in Docs |-> <<>>]
    /\ copyIssued = {}
    /\ incs = [d \in Docs |-> <<>>]
    /\ decodeErrs = 0
    /\ finalized = [c \in Classes |-> 0]
    /\ published = {}
    /\ faults = {}
    /\ cancelled = FALSE
    /\ late = {}
    /\ config = <<>>
    /\ endpoint = DefaultEndpoint
    /\ clientEndpoint = <<>>
    /\ RateUnused
    /\ SeqAtStart

\* --------------------------------------------------------- main goroutine

\* One iteration of the worker start loop:  wg.Add(1); go func() {...}()
StartWorker ==
    /\ mpc = "spawn"
    /\ SpawnCond(spawned, Concurrency)
    /\ spawned + 1 \in Workers
    /\ spawned' = spawned + 1
    /\ wpc' = [wpc EXCEPT ![spawned + 1] = "recv"]
    /\ UNCHANGED <<params, cancelled, subVars, dstStore, mpc, pos, closed,
                   mtmp, report, returned, objectChan, wdoc, wclass, wtmp,
                   count, finalized, feedHist, workHist>>

\* cursor, err := params.Collection.Find(...); if err != nil { return err }
Find ==
    /\ mpc = "spawn"
    /\ ~SpawnCond(spawned, Concurrency)
    /\ \E err \in CallErrs(cancelled) :
          IF err THEN mpc' = "returned" /\ returned' = "err"
                 ELSE mpc' = "next" /\ returned' = returned
    /\ UNCHANGED <<params, cancelled, subVars, dstStore, spawned, pos, closed,
                   mtmp, report, objectChan, workerVars, count, finalized,
                   feedHist, workHist>>

\* for cursor.Next(ctx) { if err := cursor.Decode(&doc); err != nil {
\* errorCount++; continue } ... }  A failed Decode goes on to the load of
\* errorCount++ in the same step: nothing shared is touched in between.
CursorNext ==
    /\ mpc = "next"
    /\ \E more \in NextResults(pos < Len(cursor), cancelled) :
          IF more
          THEN /\ pos' = pos + 1
               /\ \E err \in BOOLEAN :
                     IF err THEN /\ mpc' = "errstore"
                                 /\ mtmp' = count[Errored]
                                 /\ decodeErrs' = decodeErrs + 1
                            ELSE /\ mpc' = "send"
                                 /\ UNCHANGED <<mtmp, decodeErrs>>
          ELSE /\ mpc' = "close"
               /\ UNCHANGED <<pos, mtmp, decodeErrs>>
    /\ UNCHANGED <<params, cancelled, subVars, dstStore, spawned, closed,
                   report, returned, objectChan, workerVars, count, finalized,
                   published, workHist>>

\* the store of the feeder's errorCount++
FeederErrStore ==
    /\ mpc = "errstore"
    /\ count' = [count EXCEPT ![Errored] = mtmp + 1]
    /\ finalized' = [finalized EXCEPT ![Errored] = @ + 1]
    /\ mpc' = "next"
    /\ mtmp' = 0
    /\ UNCHANGED <<params, cancelled, subVars, dstStore, spawned, pos, closed,
                   report, returned, objectChan, workerVars, feedHist,
                   workHist>>

\* objectChan <- doc  (blocks while the buffer is full)
Send ==
    /\ mpc = "send"
    /\ Len(objectChan) < ChanCap(Concurrency)
    /\ objectChan' = Append(objectChan, pos)
    /\ published' = published \cup {pos}
    /\ mpc' = "next"
    /\ UNCHANGED <<params, cancelled, subVars, dstStore, spawned, pos, closed,
                   mtmp, report, returned, workerVars, count, finalized,
                   decodeErrs, workHist>>

\* close(objectChan)
Close ==
    /\ mpc = "close"
    /\ closed' = TRUE
    /\ mpc' = "wait"
    /\ UNCHANGED <<params, cancelled, subVars, dstStore, spawned, pos, mtmp,
                   report, returned, objectChan, workerVars, count, finalized,
                   feedHist, workHist>>

\* wg.Wait(), then the report is built and nil returned
WaitAndReport ==
    /\ mpc = "wait"
    /\ WaitGroupDone(wpc)
    /\ report' = BuildReport(count)
    /\ returned' = "nil"
    /\ mpc' = "returned"
    /\ UNCHANGED <<params, cancelled, subVars, dstStore, spawned, pos, closed,
                   mtmp, objectChan, workerVars, count, finalized, feedHist,
                   workHist>>

\* ------------------------------------------------------- worker goroutines

\* The worker w takes the branch r for its document; fault tells whether the
\* call it made just before failed.
Branch(w, r, fault) ==
    /\ wpc' = [wpc EXCEPT ![w] = r.next]
    /\ faults' = IF fault THEN faults \cup {wdoc[w]} ELSE faults
    /\ late' = IF cancelled THEN late \cup {wdoc[w]} ELSE late
    /\ IF r.class = None
       THEN UNCHANGED <<wclass, outcome>>
       ELSE /\ wclass' = [wclass EXCEPT ![w] = r.class]
            /\ outcome' = [outcome EXCEPT ![wdoc[w]] = Append(@, r.class)]

\* for doc := range objectChan: receive, or leave the loop (wg.Done) when the
\* channel is closed and empty.  The workers blocked in the receive are
\* interchangeable, so the lowest-numbered of them stands for whichever the
\* runtime wakes.
Recv(w) ==
    /\ wpc[w] = "recv"
    /\ \A v \in Workers : v < w => wpc[v] # "recv"
    /\ IF objectChan # <<>>
       THEN LET r == ChanRecv(objectChan) IN
            /\ objectChan' = r.rest
            /\ wdoc' = [wdoc EXCEPT ![w] = r.doc]
            /\ wpc' = [wpc EXCEPT ![w] =
                          IF HasLimiter(RateLimit) THEN "wait" ELSE "src"]
            /\ dequeued' = dequeued + 1
            /\ recvs' = [recvs EXCEPT ![r.doc] = @ + 1]
       ELSE /\ closed
            /\ wpc' = [wpc EXCEPT ![w] = "exited"]
            /\ UNCHANGED <<objectChan, wdoc, dequeued, recvs>>
    /\ UNCHANGED <<params, cancelled, subVars, dstStore, mainVars, wclass,
                   wtmp, count, finalized, feedHist, outcome, copyIssued,
                   incs, faults, late>>

\* limiter.Wait(ctx)
Wait(w) ==
    /\ wpc[w] = "wait"
    /\ \E err \in CallErrs(cancelled) : Branch(w, AfterWait(err), err)
    /\ UNCHANGED <<params, cancelled, subVars, dstStore, mainVars, objectChan,
                   wdoc, wtmp, count, finalized, feedHist, dequeued, recvs,
                   copyIssued, incs>>

\* sourceClient.ObjectExist(ctx, storageID)
SourceCheck(w) ==
    /\ wpc[w] = "src"
    /\ \E stat \in StatResults(cursor[wdoc[w]] \in srcStore, cancelled) :
          Branch(w, AfterSource(ObjectExist(stat)), stat = StatOther)
    /\ UNCHANGED <<params, cancelled, subVars, dstStore, mainVars, objectChan,
                   wdoc, wtmp, count, finalized, feedHist, dequeued, recvs,
                   copyIssued, incs>>

\* destClient.ObjectExist(ctx, storageID) and the dry-run branch
DestCheck(w) ==
    /\ wpc[w] = "dst"
    /\ \E stat \in StatResults(cursor[wdoc[w]] \in dstStore, cancelled) :
          Branch(w, AfterDest(ObjectExist(stat), DryRun), stat = StatOther)
    /\ UNCHANGED <<params, cancelled, subVars, dstStore, mainVars, objectChan,
                   wdoc, wtmp, count, finalized, feedHist, dequeued, recvs,
                   copyIssued, incs>>

\* destClient.CopyObject(ctx, sourceClient, storageID, params.DryRun):
\* StatObject on the source, then the server-side copy.
Copy(w) ==
    /\ wpc[w] = "copy"
    /\ \E stat \in StatResults(cursor[wdoc[w]] \in srcStore, cancelled) :
          IF stat # StatOK
          THEN /\ Branch(w, AfterCopy(TRUE), TRUE)
               /\ UNCHANGED <<dstStore, copyIssued>>
          ELSE /\ copyIssued' = copyIssued \cup {wdoc[w]}
               /\ \E err \in CallErrs(cancelled) :
                     /\ Branch(w, AfterCopy(err), err)
                     /\ dstStore' = IF err THEN dstStore
                                    ELSE dstStore \cup {cursor[wdoc[w]]}
    /\ UNCHANGED <<params, cancelled, subVars, mainVars, objectChan, wdoc,
                   wtmp, count, finalized, feedHist, dequeued, recvs, incs>>

\* the load of  copiedCount++ / skippedCount++ / alreadyExistsCount++ / errorCount++
CountLoad(w) ==
    /\ wpc[w] = "load"
    /\ wtmp' = [wtmp EXCEPT ![w] = count[wclass[w]]]
    /\ wpc' = [wpc EXCEPT ![w] = "store"]
    /\ UNCHANGED <<params, cancelled, subVars, dstStore, mainVars, objectChan,
                   wdoc, wclass, count, finalized, feedHist, workHist>>

\* the store of the ++, then  continue
CountStore(w) ==
    /\ wpc[w] = "store"
    /\ count' = [count EXCEPT ![wclass[w]] = wtmp[w] + 1]
    /\ incs' = [incs EXCEPT ![wdoc[w]] = Append(@, wclass[w])]
    /\ finalized' = [finalized EXCEPT ![wclass[w]] = @ + 1]
    /\ wpc' = [wpc EXCEPT ![w] = "recv"]
    /\ wdoc' = [wdoc EXCEPT ![w] = 0]
    /\ wclass' = [wclass EXCEPT ![w] = None]
    /\ wtmp' = [wtmp EXCEPT ![w] = 0]
    /\ UNCHANGED <<params, cancelled, subVars, dstStore, mainVars, objectChan,
                   feedHist, dequeued, recvs, outcome, copyIssued, faults,
                   late>>

Worker(w) ==
    \/ Recv(w)
    \/ Wait(w)
    \/ SourceCheck(w)
    \/ DestCheck(w)
    \/ Copy(w)
    \/ CountLoad(w)
    \/ CountStore(w)

Next ==
    \/ StartWorker
    \/ Find
    \/ CursorNext
    \/ FeederErrStore
    \/ Send
    \/ Close
    \/ WaitAndReport
    \/ \E w \in Workers : Worker(w)

Spec == Init /\ [][Next]_vars

\* The steps of the main goroutine.
Main ==
    \/ StartWorker
    \/ Find
    \/ CursorNext
    \/ FeederErrStore
    \/ Send
    \/ Close
    \/ WaitAndReport

\* The cursors of the runs explored under fairness: those of Cursors whose
\* documents are of different kinds.
LiveCursors == {c \in Cursors : \A i, j \in Docs : i # j => c[i][1] # c[j][1]}

InitLive == Init /\ cursor \in LiveCursors

\* The run under a fair scheduler, every call returning in the end: a
\* goroutine that can take a step is not left waiting for ever.
SpecLive ==
    /\ InitLive
    /\ [][Next]_vars
    /\ WF_vars(Main)
    /\ \A w \in Workers : WF_vars(Worker(w))

\* ------------------------------------------------------------ cancellation

\* The caller cancels ctx while migrateObjects runs.
Cancel ==
    /\ ~cancelled
    /\ returned = "none"
    /\ cancelled' = TRUE
    /\ UNCHANGED <<params, subVars, dstStore, mainVars, objectChan,
                   workerVars, count, finalized, feedHist, workHist>>

NextCancel == Next \/ Cancel

SpecCancel == Init /\ [][NextCancel]_vars

\* ------------------------------------------- MigrateStorage and NewS3Connect

\* The run's own variables as they stand before migrateObjects has done
\* anything.
RunAtStart ==
    /\ spawned = 0
    /\ pos = 0
    /\ objectChan = <<>>
    /\ closed = FALSE
    /\ mtmp = 0
    /\ wpc = [w \in Workers |-> "unstarted"]
    /\ wdoc = [w \in Workers |-> 0]
    /\ wclass = [w \in Workers |-> None]
    /\ wtmp = [w \in Workers |-> 0]
    /\ count = [c \in Classes |-> 0]
    /\ report = <<>>
    /\ returned = "none"
    /\ dequeued = 0
    /\ recvs = [d \in Docs |-> 0]
    /\ outcome = [d \in Docs |-> <<>>]
    /\ copyIssued = {}
    /\ incs = [d \in Docs |-> <<>>]
    /\ decodeErrs = 0
    /\ finalized = [c \in Classes |-> 0]
    /\ published = {}
    /\ faults = {}
    /\ cancelled = FALSE
    /\ late = {}

\* What viper can give MigrateStorage: --concurrency is an Int64 flag, the
\* endpoints are strings ("" when not set), and CountDocuments gives the
\* number of documents.
Endpoints == {"", "minio.example.com"}
Configs ==
    [concurrency : (0 - MaxConcurrency)..MaxConcurrency,
     numCPU : 1..MaxConcurrency,
     sourceEndpoint : Endpoints,
     destEndpoint : Endpoints,
     count : 0..MaxDocs]

\* if concurrency == 0 { concurrency = int64(runtime.NumCPU()) }
DefaultConcurrency(c, ncpu) == IF c = 0 THEN ncpu ELSE c

\* NewS3Connect: if params.Endpoint != "" { endpoint = params.Endpoint },
\* then minio.New(endpoint, ...).  Gives the package variable afterwards
\* and the endpoint of the client built.
NewS3Connect(global, e) ==
    LET used == IF e # "" THEN e ELSE global
    IN [endpoint |-> used, client |-> used]

\* make(chan Object, n) panics when n is negative.
MakeChanPanics(n) == n < 0

InitSetup ==
    /\ config \in Configs
    /\ Concurrency = 0
    /\ DryRun = FALSE
    /\ RateLimit = 0
    /\ cursor = <<>>
    /\ srcStore = SourceBucket
    /\ dstStore = DestBucket
    /\ mpc = "config"
    /\ endpoint = DefaultEndpoint
    /\ clientEndpoint = [c \in Clients |-> None]
    /\ RunAtStart
    /\ RateUnused
    /\ SeqAtStart

\* concurrency := viper.GetInt64("concurrency") and its default
ReadConfig ==
    /\ mpc = "config"
    /\ Concurrency' = DefaultConcurrency(config.concurrency, config.numCPU)
    /\ mpc' = "count"
    /\ UNCHANGED <<DryRun, RateLimit, cursor, srcStore, dstStore, cancelled,
                   subVars, spawned, pos, closed, mtmp, report, returned,
                   objectChan, workerVars, count, finalized, feedHist,
                   workHist>>

\* count, err := collection.CountDocuments(ctx, filter) and the two early
\* returns that follow it
CountDocuments ==
    /\ mpc = "count"
    /\ \E err \in BOOLEAN :
          IF err THEN mpc' = "returned" /\ returned' = "err"
          ELSE IF config.count <= 0 THEN mpc' = "returned" /\ returned' = "nil"
          ELSE mpc' = "srcClient" /\ returned' = returned
    /\ UNCHANGED <<params, cancelled, subVars, dstStore, spawned, pos, closed,
                   mtmp, report, objectChan, workerVars, count, finalized,
                   feedHist, workHist>>

\* sourceClient, err := NewS3Connect(ctx, params.Source)
ConnectSource ==
    /\ mpc = "srcClient"
    /\ LET r == NewS3Connect(endpoint, config.sourceEndpoint) IN
          /\ endpoint' = r.endpoint
          /\ clientEndpoint' = [clientEndpoint EXCEPT !["source"] = r.client]
    /\ mpc' = "dstClient"
    /\ UNCHANGED <<params, cancelled, config, rateVars, seqVars, co, dstStore,
                   spawned, pos, closed, mtmp, report, returned, objectChan,
                   workerVars, count, finalized, feedHist, workHist>>

\* destClient, err := NewS3Connect(ctx, params.Destination)
ConnectDest ==
    /\ mpc = "dstClient"
    /\ LET r == NewS3Connect(endpoint, config.destEndpoint) IN
          /\ endpoint' = r.endpoint
          /\ clientEndpoint' = [clientEndpoint EXCEPT !["dest"] = r.client]
    /\ mpc' = "makechan"
    /\ UNCHANGED <<params, cancelled, config, rateVars, seqVars, co, dstStore,
                   spawned, pos, closed, mtmp, report, returned, objectChan,
                   workerVars, count, finalized, feedHist, workHist>>

\* objectChan := make(chan Object, params.Concurrency)
MakeChan ==
    /\ mpc = "makechan"
    /\ mpc' = IF MakeChanPanics(ChanCap(Concurrency)) THEN "panic" ELSE "spawn"
    /\ UNCHANGED <<params, cancelled, subVars, dstStore, spawned, pos, closed,
                   mtmp, report, returned, objectChan, workerVars, count,
                   finalized, feedHist, workHist>>

NextSetup ==
    \/ ReadConfig
    \/ CountDocuments
    \/ ConnectSource
    \/ ConnectDest
    \/ MakeChan
    \/ StartWorker

SpecSetup == InitSetup /\ [][NextSetup]_vars

\* ------------------------------------------------- the limiter and the clock

Min(a, b) == IF a < b THEN a ELSE b

\* rate.Limiter's advance: the tokens after elapsed ticks, never more than
\* the burst.
AdvanceNoBurst(tokens, elapsed) == tokens + elapsed
Advance(tokens, elapsed) == Min(Burst * TicksPerToken, tokens + elapsed)

\* rate.Limiter's reservation of one token inside Wait: the tokens left
\* (negative when the token is borrowed) and the time the caller must wait.
Reserve(tokens, elapsed) ==
    LET t == Advance(tokens, elapsed) - TicksPerToken
    IN [tokens |-> t, wait |-> IF t < 0 THEN 0 - t ELSE 0]

\* The workers of a run with a limiter, each about to call limiter.Wait for
\* a record it has received.
InitRate ==
    /\ Concurrency \in Workers
    /\ RateLimit \in 1..MaxRate
    /\ DryRun = FALSE
    /\ cursor = <<>>
    /\ srcStore = SourceBucket
    /\ dstStore = DestBucket
    /\ mpc = "next"
    /\ config = <<>>
    /\ endpoint = DefaultEndpoint
    /\ clientEndpoint = <<>>
    /\ spawned = Concurrency
    /\ pos = 0
    /\ objectChan = <<>>
    /\ closed = FALSE
    /\ mtmp = 0
    /\ wpc = [w \in Workers |-> IF w <= Concurrency THEN "wait" ELSE "unstarted"]
    /\ wdoc = [w \in Workers |-> 0]
    /\ wclass = [w \in Workers |-> None]
    /\ wtmp = [w \in Workers |-> 0]
    /\ count = [c \in Classes |-> 0]
    /\ report = <<>>
    /\ returned = "none"
    /\ dequeued = 0
    /\ recvs = [d \in Docs |-> 0]
    /\ outcome = [d \in Docs |-> <<>>]
    /\ copyIssued = {}
    /\ incs = [d \in Docs |-> <<>>]
    /\ decodeErrs = 0
    /\ finalized = [c \in Classes |-> 0]
    /\ published = {}
    /\ faults = {}
    /\ cancelled = FALSE
    /\ late = {}
    /\ RateAtStart
    /\ SeqAtStart

\* limiter.Wait(ctx) is called: the limiter reserves a token for the caller
\* and tells it how long to sleep.
LimiterWait(w) ==
    /\ wpc[w] = "wait"
    /\ HasLimiter(RateLimit)
    /\ LET r == Reserve(limTokens, now - limLast) IN
          /\ now + r.wait <= MaxTime
          /\ limTokens' = r.tokens
          /\ limLast' = now
          /\ wake' = [wake EXCEPT ![w] = now + r.wait]
          /\ grants' = [grants EXCEPT ![now + r.wait] = @ + 1]
    /\ wpc' = [wpc EXCEPT ![w] = "timer"]
    /\ UNCHANGED <<params, cancelled, setupVars, seqVars, co, now, stats,
                   dstStore, mainVars, objectChan, wdoc, wclass, wtmp, count,
                   finalized, feedHist, workHist>>

\* limiter.Wait(ctx) returns, at the reserved time or later.
WaitReturns(w) ==
    /\ wpc[w] = "timer"
    /\ now >= wake[w]
    /\ wpc' = [wpc EXCEPT ![w] = "src"]
    /\ UNCHANGED <<params, cancelled, subVars, dstStore, mainVars, objectChan,
                   wdoc, wclass, wtmp, count, finalized, feedHist, workHist>>

\* sourceClient.ObjectExist(ctx, storageID) is called; the worker then
\* finishes the record and receives the next one.
InitiateSourceCheck(w) ==
    /\ wpc[w] = "src"
    /\ stats' = [stats EXCEPT ![now] = @ + 1]
    /\ wake' = [wake EXCEPT ![w] = 0]
    /\ wpc' = [wpc EXCEPT ![w] = "wait"]
    /\ UNCHANGED <<params, cancelled, setupVars, seqVars, co, now, limLast,
                   limTokens, grants, dstStore, mainVars, objectChan, wdoc,
                   wclass, wtmp, count, finalized, feedHist, workHist>>

\* Time passes.
Tick ==
    /\ now < MaxTime
    /\ now' = now + 1
    /\ UNCHANGED <<params, cancelled, setupVars, seqVars, co, limLast, limTokens,
                   wake, grants, stats, dstStore, mainVars, objectChan,
                   workerVars, count, finalized, feedHist, workHist>>

NextRate ==
    \/ Tick
    \/ \E w \in Workers : LimiterWait(w) \/ WaitReturns(w) \/ InitiateSourceCheck(w)

SpecRate == InitRate /\ [][NextRate]_vars

\* ---------------------------------- the sequential migrateObjects (migrate.go)

\* The collections explored: MaxDocs documents; the StorageID (_id) of each
\* is a key of any kind, its ID (id) is the same string or another key.
IdChoices == {"same", "srcOnly", "neither"}
Collections ==
    {[d \in Docs |->
        [StorageID |-> c[d],
         ID |-> IF g[d] = "same" THEN c[d] ELSE <<g[d], d>>]] :
            c \in Cursors, g \in [Docs -> IdChoices]}

\* objectSHA := doc.ID
ObjectSHA(doc) == doc.ID

\* pages := totalCount / params.Limit; if totalCount%params.Limit != 0 { pages++ }
Pages(totalCount, limit) ==
    (totalCount \div limit) + IF totalCount % limit # 0 THEN 1 ELSE 0

\* An int64 division by d panics when d is 0.
DivPanics(d) == d = 0

\* skip := page * params.Limit
Skip(pg, limit) == pg * limit

\* The documents of a page: Find with Skip = page * Limit and Limit.
PageEnd(pg, limit, total) == Min((pg + 1) * limit, total)

InitSeq ==
    /\ objects \in Collections
    /\ Limit \in 0..MaxDocs
    /\ DryRun \in BOOLEAN
    /\ RateLimit \in {0, 1}
    /\ Concurrency = 1
    /\ cursor = <<>>
    /\ srcStore = SourceBucket
    /\ dstStore = DestBucket
    /\ mpc = "pages"
    /\ page = 0
    /\ storeCalls = {}
    /\ queries = <<>>
    /\ co = <<>>
    /\ config = <<>>
    /\ endpoint = DefaultEndpoint
    /\ clientEndpoint = <<>>
    /\ RunAtStart
    /\ RateUnused

\* What no step of the sequential migrateObjects changes.
seqFrame == <<params, Concurrency, cancelled, setupVars, rateVars, co, objects,
              Limit, spawned, closed, mtmp, report, objectChan, workerVars,
              count, finalized, feedHist, workHist>>

\* pages := totalCount / params.Limit and the remainder: an integer
\* division, which panics when params.Limit is 0
SeqPages ==
    /\ mpc = "pages"
    /\ mpc' = IF DivPanics(Limit) THEN "panic" ELSE "page"
    /\ UNCHANGED <<seqFrame, dstStore, pos, page, returned, storeCalls,
                   queries>>

\* for page := int64(0); page < pages; page++ { cursor, err := Find(...) },
\* or "Migration completed!" and return nil after the last page
SeqFind ==
    /\ mpc = "page"
    /\ IF page < Pages(Len(objects), Limit)
       THEN /\ queries' = Append(queries, Skip(page, Limit))
            /\ \E err \in CallErrs(cancelled) :
                  IF err THEN mpc' = "returned" /\ returned' = "err"
                         ELSE mpc' = "next" /\ returned' = returned
       ELSE /\ queries' = queries
            /\ mpc' = "returned" /\ returned' = "nil"
    /\ UNCHANGED <<seqFrame, dstStore, pos, page, storeCalls>>

\* for cursor.Next(ctx) { if err := cursor.Decode(&doc); err != nil { return
\* err } ... }, and cursor.Close(ctx) after the last document of the page
SeqCursorNext ==
    /\ mpc = "next"
    /\ IF pos < PageEnd(page, Limit, Len(objects))
       THEN /\ pos' = pos + 1
            /\ page' = page
            /\ \E err \in BOOLEAN :
                  IF err THEN mpc' = "returned" /\ returned' = "err"
                  ELSE /\ mpc' = IF HasLimiter(RateLimit) THEN "wait" ELSE "src"
                       /\ returned' = returned
       ELSE /\ pos' = pos
            /\ \E err \in BOOLEAN :
                  IF err THEN /\ mpc' = "returned"
                              /\ returned' = "err"
                              /\ page' = page
                         ELSE /\ mpc' = "page"
                              /\ returned' = returned
                              /\ page' = page + 1
    /\ UNCHANGED <<seqFrame, dstStore, storeCalls, queries>>

\* if err := limiter.Wait(ctx); err != nil { return err }
SeqWait ==
    /\ mpc = "wait"
    /\ \E err \in CallErrs(cancelled) :
          IF err THEN mpc' = "returned" /\ returned' = "err"
                 ELSE mpc' = "src" /\ returned' = returned
    /\ UNCHANGED <<seqFrame, dstStore, pos, page, storeCalls, queries>>

\* exists, err := sourceClient.ObjectExist(ctx, objectSHA), the two
\* continues after it and the dry-run continue
SeqSourceCheck ==
    /\ mpc = "src"
    /\ LET key == ObjectSHA(objects[pos]) IN
          /\ storeCalls' = storeCalls \cup {<<pos, "sourceStat", key>>}
          /\ \E stat \in StatResults(key \in srcStore, cancelled) :
                LET r == ObjectExist(stat) IN
                mpc' = IF r.err \/ ~r.exist \/ DryRun THEN "next" ELSE "copy"
    /\ UNCHANGED <<seqFrame, dstStore, pos, page, returned, queries>>

\* destClient.CopyObject(ctx, sourceClient, objectSHA, params.DryRun):
\* StatObject on the source, then the server-side copy
SeqCopy ==
    /\ mpc = "copy"
    /\ LET key == ObjectSHA(objects[pos]) IN
       \E stat \in StatResults(key \in srcStore, cancelled) :
          IF stat # StatOK
          THEN /\ storeCalls' = storeCalls \cup {<<pos, "copyStat", key>>}
               /\ dstStore' = dstStore
          ELSE /\ storeCalls' = storeCalls \cup {<<pos, "copyStat", key>>,
                                                  <<pos, "copy", key>>}
               /\ \E err \in CallErrs(cancelled) :
                     dstStore' = IF err THEN dstStore ELSE dstStore \cup {key}
    /\ mpc' = "next"
    /\ UNCHANGED <<seqFrame, pos, page, returned, queries>>

NextSeq ==
    \/ SeqPages
    \/ SeqFind
    \/ SeqCursorNext
    \/ SeqWait
    \/ SeqSourceCheck
    \/ SeqCopy

SpecSeq == InitSeq /\ [][NextSeq]_vars

\* ------------------------------------------- S3Client.ObjectExist, CopyObject

MaxSize == 2            \* largest of the small object sizes explored

\* for i := int64(0); i <= objectInfo.Size; i += objectInfo.Size / 100
DryRunSteps == 100
\* increment := objectInfo.Size / 20
TickerShare == 20

\* objectInfo.Size: the small sizes, one size whose twentieth is above 1 and
\* one whose hundredth is.
Sizes == (0..MaxSize) \cup {2 * TickerShare + 1, 2 * DryRunSteps}

\* The errors of StatObject as err.Error() gives them, word by word (<<>>
\* for nil), and the text ObjectExist looks for in them.
NoErr == <<>>
ErrNoSuchKey == <<"The", "specified", "key", "does", "not", "exist", ".">>
ErrNoSuchBucket == <<"The", "specified", "bucket", "does", "not", "exist">>
ErrAccessDenied == <<"Access", "Denied", ".">>
ErrCanceled == <<"context", "canceled">>
NoKeyText == <<"The", "specified", "key", "does", "not", "exist">>

\* strings.Contains(s, substr)
Contains(s, substr) ==
    \E i \in 1..(Len(s) - Len(substr) + 1) :
        SubSeq(s, i, i + Len(substr) - 1) = substr

\* err != nil && strings.Contains(err.Error(), "The specified key does not
\* exist"), err != nil, or neither: the three cases of ObjectExist
ErrorKind(e) ==
    IF e = NoErr THEN StatOK
    ELSE IF Contains(e, NoKeyText) THEN StatNoKey
    ELSE StatOther

\* What StatObject can return for a key, given whether the bucket holds it.
StatErrors(present) ==
    {ErrNoSuchBucket, ErrAccessDenied, ErrCanceled}
        \cup IF present THEN {NoErr} ELSE {ErrNoSuchKey}

\* newPos of the progress goroutine: current plus a twentieth of the size,
\* at least 1, at most the size
NewPosNoCap(current, size) ==
    current + IF size \div TickerShare < 1 THEN 1 ELSE size \div TickerShare
NewPos(current, size) == Min(NewPosNoCap(current, size), size)

\* close(done) follows the server-side copy whether it failed or not.
ClosesDoneOnSuccess(err) == ~err
ClosesDone(err) == TRUE

\* One key of each kind, a size, and dryRun; ObjectExist is about to be
\* called on the source, CopyObject after it.
CopyKeys == {k \in Keys : k[2] = 1}
InitCopy ==
    /\ \E k \in CopyKeys, dry \in BOOLEAN, size \in Sizes :
          co = [key |-> k, dryRun |-> dry, size |-> size, pc |-> "exist",
                exist |-> [err |-> NoErr,
                          res |-> [exist |-> FALSE, err |-> FALSE]],
                i |-> 0, turns |-> 0,
                barOn |-> FALSE, bar |-> 0, err |-> FALSE,
                done |-> 0, gpc |-> None, ret |-> None, late |-> FALSE]
    /\ Concurrency = 1
    /\ DryRun = FALSE
    /\ RateLimit = 0
    /\ cursor = <<>>
    /\ srcStore = SourceBucket
    /\ dstStore = DestBucket
    /\ mpc = "next"
    /\ config = <<>>
    /\ endpoint = DefaultEndpoint
    /\ clientEndpoint = <<>>
    /\ objects = <<>>
    /\ Limit = 1
    /\ page = 0
    /\ storeCalls = {}
    /\ queries = <<>>
    /\ RunAtStart
    /\ RateUnused

\* What no step of ObjectExist and CopyObject changes.
copyFrame == <<params, cancelled, setupVars, rateVars, seqVars, mainVars,
               objectChan, workerVars, count, finalized, feedHist, workHist>>

\* sourceClient.ObjectExist(ctx, id): StatObject and the (exist, err) made
\* of its error
CoObjectExist ==
    /\ co.pc = "exist"
    /\ \E e \in StatErrors(co.key \in srcStore) :
          co' = [co EXCEPT !.exist = [err |-> e,
                                      res |-> ObjectExist(ErrorKind(e))],
                           !.pc = "stat"]
    /\ UNCHANGED <<copyFrame, dstStore>>

\* CopyObject: objectInfo, err := source.client.StatObject(...) and the
\* return of its error
CoStat ==
    /\ co.pc = "stat"
    /\ \E e \in StatErrors(co.key \in srcStore) :
          co' = IF e # NoErr
                THEN [co EXCEPT !.pc = "returned", !.ret = "err"]
                ELSE [co EXCEPT !.pc = "bar"]
    /\ UNCHANGED <<copyFrame, dstStore>>

\* bar := progressbar.DefaultBytes(objectInfo.Size, ...), then  if dryRun
CoBar ==
    /\ co.pc = "bar"
    /\ co' = [co EXCEPT !.barOn = TRUE, !.bar = 0, !.i = 0,
                        !.pc = IF co.dryRun THEN "dryloop" ELSE "go"]
    /\ UNCHANGED <<copyFrame, dstStore>>

\* one turn of  for i := int64(0); i <= objectInfo.Size;
\* i += objectInfo.Size / 100 { bar.Set64(i); ... }, or its end; turns is
\* the parity of the number of turns made
CoDryLoop ==
    /\ co.pc = "dryloop"
    /\ co' = IF co.i <= co.size
             THEN [co EXCEPT !.bar = co.i,
                             !.turns = (co.turns + 1) % 2,
                             !.i = co.i + (co.size \div DryRunSteps)]
             ELSE [co EXCEPT !.pc = "finish"]
    /\ UNCHANGED <<copyFrame, dstStore>>

\* bar.Finish(); return nil
CoFinish ==
    /\ co.pc = "finish"
    /\ co' = [co EXCEPT !.bar = co.size, !.ret = "nil", !.pc = "returned"]
    /\ UNCHANGED <<copyFrame, dstStore>>

\* done := make(chan struct{}); go func() {...}()
CoGo ==
    /\ co.pc = "go"
    /\ co' = [co EXCEPT !.gpc = "select", !.pc = "copy"]
    /\ UNCHANGED <<copyFrame, dstStore>>

\* _, err = s.client.CopyObject(ctx, dstOpts, srcOpts)
CoCopy ==
    /\ co.pc = "copy"
    /\ \E err \in CallErrs(cancelled) :
          /\ co' = [co EXCEPT !.err = err, !.pc = "close"]
          /\ dstStore' = IF err THEN dstStore ELSE dstStore \cup {co.key}
    /\ UNCHANGED copyFrame

\* close(done), then the return of the copy's error or of nil
CoClose ==
    /\ co.pc = "close"
    /\ co' = [co EXCEPT !.done = IF ClosesDone(co.err) THEN co.done + 1
                                 ELSE co.done,
                        !.ret = IF co.err THEN "err" ELSE "nil",
                        !.pc = "returned"]
    /\ UNCHANGED <<copyFrame, dstStore>>

\* the progress goroutine:  case <-done: bar.Finish(); return
GoDone ==
    /\ co.gpc = "select"
    /\ co.done > 0
    /\ co' = [co EXCEPT !.bar = co.size, !.gpc = "exited",
                        !.late = co.late \/ co.ret # None]
    /\ UNCHANGED <<copyFrame, dstStore>>

\* the progress goroutine:  case <-ticker.C: StatObject on the destination,
\* then bar.Set64(objectInfo.Size) and return, or bar.Set64(newPos)
GoTick ==
    /\ co.gpc = "select"
    /\ \E e \in StatErrors(co.key \in dstStore) :
          co' = IF e = NoErr
                THEN [co EXCEPT !.bar = co.size, !.gpc = "exited",
                                !.late = co.late \/ co.ret # None]
                ELSE [co EXCEPT !.bar = IF co.bar < co.size
                                        THEN NewPos(co.bar, co.size)
                                        ELSE co.bar,
                                !.late = co.late \/ co.ret # None]
    /\ UNCHANGED <<copyFrame, dstStore>>

\* The steps of the caller of ObjectExist and CopyObject.
CoCaller ==
    \/ CoObjectExist
    \/ CoStat
    \/ CoBar
    \/ CoDryLoop
    \/ CoFinish
    \/ CoGo
    \/ CoCopy
    \/ CoClose

NextCopy == CoCaller \/ GoDone \/ GoTick

SpecCopy == InitCopy /\ [][NextCopy]_vars

\* The same under a fair scheduler, every call returning in the end; a
\* select with several cases ready takes each of them sooner or later.
SpecCopyLive ==
    /\ InitCopy
    /\ [][NextCopy]_vars
    /\ WF_vars(CoCaller)
    /\ WF_vars(GoDone)
    /\ WF_vars(GoTick)

\* ------------------------------------------------------------- properties

ReportBuilt == returned = "nil"
ReportSum == report.Copied + report.Skipped + report.AlreadyInDestination
             + report.Errors
Holders(d) == {w \in Workers : wdoc[w] = d}
Finished(d) == recvs[d] > 0 /\ \A w \in Workers : wdoc[w] # d
InChan(d) == Cardinality({i \in 1..Len(objectChan) : objectChan[i] = d})
InFlight == {d \in Docs : recvs[d] > 0 /\ incs[d] = <<>>}
Range(f) == {f[i] : i \in DOMAIN f}
Eligible == {d \in Docs : cursor[d] \in SourceBucket /\ cursor[d] \notin DestBucket}

\* C1: when the report is built, copied + skipped + alreadyInDestination +
\* errors equals the number of records the workers dequeued.  Stated here for
\* the runs in which no document failed to decode, where every counter
\* increment belongs to a dequeued record.
C1_ReportSumIsDequeued ==
    (ReportBuilt /\ decodeErrs = 0) => ReportSum = dequeued

\* C2: with two or more workers every increment of a counter takes effect:
\* in the report each counter equals the number of ++ statements completed
\* on it.
C2_NoLostUpdate ==
    (ReportBuilt /\ Concurrency >= 2) =>
        /\ report.Copied = finalized[Copied]
        /\ report.Skipped = finalized[Skipped]
        /\ report.AlreadyInDestination = finalized[AlreadyExists]
        /\ report.Errors = finalized[Errored]

\* C3: the number of records dequeued and not yet counted never exceeds the
\* concurrency level.
C3_InFlightAtMostN == Cardinality(InFlight) <= Concurrency

C3_Witness ==
    /\ Concurrency >= 2
    /\ Cardinality(InFlight) = Concurrency

\* C4 as claimed: a record whose key is absent from the source store is
\* always classified skipped, and no copy is issued for its key.
C4_AbsentAlwaysSkipped ==
    \A d \in Docs :
        (cursor[d] \notin srcStore /\ outcome[d] # <<>>) =>
            /\ outcome[d] = <<Skipped>>
            /\ \A e \in copyIssued : cursor[e] # cursor[d]

\* C4 as amended: a record whose key is absent from the source store is
\* classified skipped, or errored when the limiter wait or the source check
\* failed for it; the worker never goes on to the destination check or the
\* copy with it, and no copy is issued for its key.
C4_AbsentSkippedOrErrored ==
    \A d \in Docs :
        cursor[d] \notin srcStore =>
            /\ outcome[d] \in {<<>>, <<Skipped>>, <<Errored>>}
            /\ outcome[d] = <<Skipped>> => d \notin faults
            /\ outcome[d] = <<Errored>> => d \in faults
            /\ \A w \in Holders(d) : wpc[w] \notin {"dst", "copy"}
            /\ \A e \in copyIssued : cursor[e] # cursor[d]

C4_Witness ==
    \E d \in Docs :
        /\ cursor[d] \notin srcStore
        /\ outcome[d] = <<Skipped>>
        /\ incs[d] = <<Skipped>>

\* C5 as claimed: a record whose key is present in the destination store is
\* always classified already-present, and no copy is issued for its key.
C5_PresentAlwaysAlreadyExists ==
    \A d \in Docs :
        (cursor[d] \in DestBucket /\ outcome[d] # <<>>) =>
            /\ outcome[d] = <<AlreadyExists>>
            /\ \A e \in copyIssued : cursor[e] # cursor[d]

\* C5 as amended: a record whose key is present in the destination store is
\* classified already-present when the key is also in the source store and
\* no check failed for it, skipped when the key is absent from the source
\* store, and errored when the limiter wait or an existence check failed; it
\* is never classified copied, the worker never reaches the copy with it, and
\* no copy is issued for its key.
C5_PresentNeverCopied ==
    \A d \in Docs :
        cursor[d] \in DestBucket =>
            /\ outcome[d] \in {<<>>, <<AlreadyExists>>, <<Skipped>>, <<Errored>>}
            /\ outcome[d] = <<AlreadyExists>> =>
                   cursor[d] \in srcStore /\ d \notin faults
            /\ outcome[d] = <<Skipped>> =>
                   cursor[d] \notin srcStore /\ d \notin faults
            /\ outcome[d] = <<Errored>> => d \in faults
            /\ \A w \in Holders(d) : wpc[w] # "copy"
            /\ \A e \in copyIssued : cursor[e] # cursor[d]

C5_Witness ==
    \E d \in Docs :
        /\ cursor[d] \in DestBucket
        /\ outcome[d] = <<AlreadyExists>>
        /\ incs[d] = <<AlreadyExists>>

\* C6: under dry-run no copy is ever issued against the destination store and
\* its content does not change, and in a run without any failure the report
\* counts as copied every record present in the source and absent from the
\* destination.
C6_DryRunCopiedCount ==
    DryRun =>
        /\ copyIssued = {}
        /\ dstStore = DestBucket
        /\ (ReportBuilt /\ faults = {} /\ decodeErrs = 0) =>
               report.Copied = Cardinality(Eligible)

\* C7: every record a worker dequeued gets exactly one terminal
\* classification and exactly one ++ statement, on the counter of that
\* classification; once classified, the worker does nothing with the record
\* but that ++; and when the report is built no dequeued record is left
\* unclassified.
C7_ExactlyOneTerminal ==
    /\ \A d \in Docs :
          /\ Len(outcome[d]) <= 1
          /\ outcome[d] # <<>> => outcome[d][1] \in Classes /\ recvs[d] > 0
          /\ incs[d] # <<>> => incs[d] = outcome[d]
          /\ Finished(d) => incs[d] = outcome[d] /\ Len(outcome[d]) = 1
    /\ \A w \in Workers :
          (wdoc[w] # 0 /\ outcome[wdoc[w]] # <<>>) =>
              /\ wpc[w] \in {"load", "store"}
              /\ wclass[w] = outcome[wdoc[w]][1]
              /\ incs[wdoc[w]] = <<>>
    /\ ReportBuilt => \A d \in Docs : recvs[d] > 0 => Len(incs[d]) = 1

C7_Witness ==
    /\ ReportBuilt
    /\ \E d, e \in Docs :
          /\ incs[d] = <<Copied>>
          /\ incs[e] = <<Errored>>

\* C8: every record published to the queue is received exactly once, by one
\* worker, which holds it until it is counted: a published record is either
\* still in the queue or has been received once, no two workers hold the same
\* record, nothing unpublished is received, and when the report is built
\* every published record has been received and counted.
C8_OneWorkerPerRecord ==
    /\ \A d \in Docs :
          /\ d \in published => InChan(d) + recvs[d] = 1
          /\ d \notin published => InChan(d) = 0 /\ recvs[d] = 0
          /\ Cardinality(Holders(d)) <= 1
          /\ Holders(d) # {} => recvs[d] = 1 /\ incs[d] = <<>>
    /\ dequeued = Cardinality({d \in Docs : recvs[d] > 0})
    /\ ReportBuilt =>
          \A d \in published : recvs[d] = 1 /\ Len(incs[d]) = 1

C8_Witness ==
    /\ ReportBuilt
    /\ Concurrency >= 2
    /\ published = Docs
    /\ \A d \in Docs : recvs[d] = 1

\* C9: a failed limiter wait, existence check or copy classifies its record
\* as errored and nothing else; the worker stays in its loop (it leaves only
\* when the queue is closed and empty), the queue is closed only when the
\* cursor is exhausted, and migrateObjects returns an error only from Find,
\* before any record was dequeued.
C9_FailureIsolated ==
    /\ \A d \in faults : outcome[d] = <<Errored>>
    /\ \A w \in Workers :
          /\ wpc[w] = "exited" => closed /\ objectChan = <<>> /\ wdoc[w] = 0
          /\ (wdoc[w] # 0 /\ wdoc[w] \in faults) => wpc[w] \in {"load", "store"}
    /\ closed => pos = Len(cursor)
    /\ returned = "err" => faults = {} /\ dequeued = 0
    /\ ReportBuilt => \A d \in published : Len(incs[d]) = 1

C9_Witness ==
    /\ ReportBuilt
    /\ Concurrency = 1
    /\ 1 \in faults
    /\ incs[1] = <<Errored>>
    /\ \E d \in Docs : d > 1 /\ incs[d] = <<Copied>>

\* C10: when Find fails, migrateObjects returns that error before any worker
\* has been started.
C10_FindFailsBeforeWorkers ==
    returned = "err" => \A w \in Workers : wpc[w] = "unstarted"

\* C11: a failed Decode is not fatal: the feeder's errorCount++ for it adds
\* exactly one to the error count, the document is not published, nothing is
\* returned, and the feeder goes on with the next document of the cursor.
C11_DecodeFailureCountsOne ==
    [][(mpc = "errstore" /\ mpc' # "errstore") =>
          /\ count'[Errored] = count[Errored] + 1
          /\ published' = published
          /\ returned' = "none"
          /\ mpc' = "next"]_vars

\* C12: in a run that is not a dry run, has no rate limit and meets no
\* failure, the report has skipped = records absent from the source,
\* alreadyInDestination = records present in both buckets, copied = records
\* present in the source only, and errors = 0.
C12_ReportCounts ==
    (ReportBuilt /\ ~DryRun /\ ~HasLimiter(RateLimit) /\ faults = {}
                 /\ decodeErrs = 0) =>
        /\ report.Skipped =
               Cardinality({d \in Docs : cursor[d] \notin SourceBucket})
        /\ report.AlreadyInDestination =
               Cardinality({d \in Docs : cursor[d] \in SourceBucket \cap DestBucket})
        /\ report.Copied = Cardinality(Eligible)
        /\ report.Errors = 0

\* C13: when ctx is cancelled during the run, migrateObjects still returns
\* its report, and at most one record (the one in progress) is marked errored
\* because of the cancellation: the other counted records were processed
\* before it.
C13_OnePartialRecord ==
    (ReportBuilt /\ cancelled) =>
        Cardinality({d \in late : Errored \in Range(outcome[d])}) <= 1

\* The number of events a per-tick log holds in the second that starts at
\* tick t (both ends included).
RECURSIVE SumFrom(_, _, _)
SumFrom(log, t, n) ==
    IF n < 0 \/ t > MaxTime THEN 0 ELSE log[t] + SumFrom(log, t + 1, n - 1)
InWindow(log, t) == SumFrom(log, t, RateLimit * TicksPerToken)

\* C14 as claimed: in no second are more than ratelimit + 1 source existence
\* checks initiated.
C14_ChecksPerSecond == \A t \in Ticks : InWindow(stats, t) <= RateLimit + 1

\* C14: in no second does the limiter let more than ratelimit + 1 Waits
\* pass, and a record's source existence check is initiated only once its
\* Wait has passed.
C14_GrantsPerSecond ==
    /\ \A t \in Ticks : InWindow(grants, t) <= RateLimit + 1
    /\ \A w \in Workers : wpc[w] = "src" => now >= wake[w]
C14_Witness ==
    \E t \in Ticks : /\ InWindow(grants, t) = RateLimit + 1
                     /\ InWindow(stats, t) = RateLimit + 1
                     /\ Concurrency > RateLimit + 1

\* C15: whatever --concurrency is configured, the run has at least one
\* worker and a queue of capacity at least one, zero being replaced by the
\* CPU count, and making the queue does not panic.
C15_AtLeastOneWorker ==
    /\ mpc # "panic"
    /\ mpc = "spawn" =>
          /\ Concurrency >= 1
          /\ ChanCap(Concurrency) >= 1
          /\ config.concurrency = 0 => Concurrency = config.numCPU

\* C16: a client built with an empty endpoint uses s3.amazonaws.com, whatever
\* client was built before it.
C16_EmptyEndpointIsDefault ==
    /\ (clientEndpoint["source"] # None /\ config.sourceEndpoint = "") =>
           clientEndpoint["source"] = DefaultEndpoint
    /\ (clientEndpoint["dest"] # None /\ config.destEndpoint = "") =>
           clientEndpoint["dest"] = DefaultEndpoint

\* C17: every call made to an object store for a record (the existence
\* checks and the copy, source object and destination object alike) is
\* addressed with the record's storage key, its StorageID.
C17_AddressedByStorageKey ==
    \A c \in storeCalls : c[3] = objects[c[1]].StorageID

\* C18: a worker takes the steps of a record in the order limiter.Wait,
\* source existence check, destination existence check, copy, leaving the
\* sequence only to count the record; it goes through limiter.Wait once, right
\* after receiving the record, exactly when a rate limit is configured, and
\* with ratelimit <= 0 it is never in limiter.Wait.
StepOrder(w) ==
    /\ RateLimit <= 0 => wpc[w] # "wait"
    /\ wpc'[w] # wpc[w] =>
          /\ wpc[w] = "recv" =>
                \/ wpc'[w] = "exited"
                \/ /\ wdoc'[w] \in Docs
                   /\ wpc'[w] = IF RateLimit > 0 THEN "wait" ELSE "src"
          /\ wpc[w] = "wait" => wpc'[w] \in {"src", "load"}
          /\ wpc[w] = "src" => wpc'[w] \in {"dst", "load"}
          /\ wpc[w] = "dst" => wpc'[w] \in {"copy", "load"}
          /\ wpc[w] = "copy" => wpc'[w] = "load"
          /\ wpc[w] = "load" => wpc'[w] = "store"
          /\ wpc[w] = "store" => wpc'[w] = "recv"
          /\ wpc[w] \in {"wait", "src", "dst", "copy", "load"} =>
                wdoc'[w] = wdoc[w]
C18_StrictStepOrder == [][\A w \in Workers : StepOrder(w)]_vars
C18_Witness ==
    \E w \in Workers : wpc[w] = "copy" /\ RateLimit > 0 /\ spawned > 1

\* C19: objectChan never holds more than Concurrency documents; when it
\* holds that many the feeder's send is blocked; the documents read from the
\* cursor and not yet received by a worker are at most Concurrency + 1.
C19_BoundedQueue ==
    /\ Len(objectChan) <= Concurrency
    /\ (mpc = "send" /\ Len(objectChan) = Concurrency) => ~ENABLED Send
    /\ pos - decodeErrs - dequeued <= Concurrency + 1
C19_Witness ==
    /\ mpc = "send"
    /\ Len(objectChan) = Concurrency
    /\ pos - decodeErrs - dequeued = Concurrency + 1

\* C20: objectChan is closed only once the cursor is exhausted and the feeder
\* has left its loop, so nothing is sent on it afterwards; the report is built
\* only after the close and after every worker has left its loop, and the
\* counters keep the values the report took.
C20_CloseThenReport ==
    /\ closed => /\ mpc \in {"wait", "returned"}
                 /\ pos = Len(cursor)
                 /\ published \subseteq 1..pos
    /\ ReportBuilt => /\ closed
                      /\ objectChan = <<>>
                      /\ \A w \in Workers : wpc[w] \in {"unstarted", "exited"}
                      /\ \A w \in 1..Concurrency : wpc[w] = "exited"
                      /\ report = BuildReport(count)
C20_Witness ==
    ReportBuilt /\ spawned > 1 /\ Cardinality(published) > 1

\* The run is over: the report is built, every worker started has left its
\* loop and every published record has its one classification.
RunDone ==
    /\ ReportBuilt
    /\ \A w \in 1..Concurrency : wpc[w] = "exited"
    /\ \A d \in published : Len(outcome[d]) = 1 /\ Len(incs[d]) = 1

C22_ReturnedMeansWorkersGone ==
    returned # "none" =>
        /\ closed
        /\ \A w \in 1..spawned : wpc[w] = "exited"

\* The records that got a progress bar.  CopyObject is the only place where
\* a bar is created, once its StatObject has succeeded and before it calls
\* the server-side copy: in a run these are the records of copyIssued.
BarCreated == copyIssued

\* C25: under dry-run every record counted as copied got its progress bar
\* before it was counted.
C25_DryRunHasProgress ==
    DryRun => \A d \in Docs : incs[d] = <<Copied>> => d \in BarCreated

\* C29: the sequential migrateObjects computes its pages without a crash
\* whatever params.Limit is, and a run that ends normally has made
\* ceil(totalCount / Limit) queries, with the skips 0, Limit, 2*Limit, ...,
\* and gone through every document once.
C29_PagesCoverNoCrash ==
    /\ mpc # "panic"
    /\ (returned = "nil" /\ objects # <<>>) =>
          /\ queries = [p \in 1..Pages(Len(objects), Limit) |-> (p - 1) * Limit]
          /\ pos = Len(objects)

\* C23: ObjectExist returns (false, nil) when StatObject reports that the key
\* does not exist, (true, nil) when StatObject succeeds and (false, err) for
\* every other failure; never true with an error, never absent for a failure
\* that is not "key not found".
C23_ObjectExistResults ==
    co.pc # "exist" =>
        LET e == co.exist.err
            r == co.exist.res
        IN  /\ e = ErrNoSuchKey => r = [exist |-> FALSE, err |-> FALSE]
            /\ e = NoErr => r = [exist |-> TRUE, err |-> FALSE]
            /\ e \notin {NoErr, ErrNoSuchKey} =>
                    r = [exist |-> FALSE, err |-> TRUE]
            /\ ~(r.exist /\ r.err)
C23_Witness ==
    /\ co.pc # "exist"
    /\ co.exist.err = ErrNoSuchBucket
    /\ co.exist.res = [exist |-> FALSE, err |-> TRUE]

\* C24: CopyObject with dryRun = true returns for every object size >= 0,
\* sizes below 100 and size 0 included, with the progress at the object size
\* and without a copy call.
C24_DryRunReturns ==
    (co.dryRun /\ co.pc = "dryloop")
        ~> (co.ret = "nil" /\ co.bar = co.size /\ co.gpc = None)

\* C26: During a server-side copy the progress never decreases and stays
\* within 0..size, for every size and every interleaving of ticks,
\* destination stat results and the end of the copy; after a successful copy
\* the progress goroutine leaves it at exactly the size.
ProgressStep ==
    (~co'.dryRun /\ co'.barOn) =>
        /\ co'.bar >= co.bar
        /\ co'.bar \in 0..co'.size
        /\ (co'.ret = "nil" /\ co'.gpc = "exited") => co'.bar = co'.size
C26_ProgressMonotonic == [][ProgressStep]_vars
C26_Witness ==
    /\ ~co.dryRun
    /\ co.pc = "close"
    /\ ~co.err
    /\ co.gpc = "select"
    /\ co.bar > 1
    /\ co.bar < co.size

\* C27: Once CopyObject has returned, the progress goroutine has finished:
\* it makes no progress update and no destination stat call afterwards.
C27_NothingAfterReturn ==
    co.ret # None => (~co.late /\ co.gpc \in {None, "exited"})

\* C28: After the server-side copy call has returned and done is closed, the
\* progress goroutine exits in finitely many steps, whether the copy
\* succeeded or failed and whether or not the destination object is ever
\* visible; done is closed exactly once.
C28_GoroutineExits ==
    /\ (co.gpc # None /\ co.pc = "returned") ~> (co.gpc = "exited")
    /\ []((co.gpc # None /\ co.pc = "returned") => co.done = 1)
    /\ [](co.done <= 1)
C28_Witness ==
    /\ co.ret = "err"
    /\ co.key \notin dstStore
    /\ co.done = 1
    /\ co.late
    /\ co.gpc = "exited"

====
